---- MODULE Spec2Model ----
(***************************************************************************)
(* A model of connex (src/src/main.rs): the markup flattener               *)
(* (parse_element, parse_html) and the navigation loop (display_loop).     *)
(*                                                                         *)
(* Strings are TLA+ strings, taken apart with Len and SubSeq.  An          *)
(* Option<T> is a sequence of length at most one: None is << >> and        *)
(* Some(x) is <<x>>.  Vec indices are 0-based as in the source, so entry i *)
(* of a Vec v is v[i + 1].                                                 *)
(***************************************************************************)
EXTENDS Integers, Sequences, FiniteSets, TLC

VARIABLES
    pc,                 \* position of display_loop
    url,                \* the requested URL (parameter `url`, line 88)
    last_url,           \* URL of the cached page (line 108)
    current_links,      \* Vec<Link> (line 106)
    current_spans,      \* Vec<(Spans, Option<usize>)> (line 107)
    selected_link_idx,  \* Option<usize> (line 102)
    scroll_offset,      \* u16 (line 103)
    raw_mode,           \* terminal in raw mode (lines 89, 218)
    alt_screen,         \* terminal on the alternate screen (lines 91, 219)
    term_height,        \* rows of the terminal, read by f.size() (line 155)
    frame,              \* what the last terminal.draw painted (lines 154-170)
    last_fetch,         \* history: the most recently completed fetch_url call
    html,               \* input of parse_html: the document tree of the body
    base_url,           \* input of parse_html: the base address
    n_lines,            \* styled_lines.len() of a page given by its length only
    event               \* history: what the last event::read returned (line 173)

vars == <<pc, url, last_url, current_links, current_spans, selected_link_idx,
          scroll_offset, raw_mode, alt_screen, term_height, frame, last_fetch,
          html, base_url, n_lines, event>>

-----------------------------------------------------------------------------
(* Option<T> *)

None == << >>

Some(x) == <<x>>

IsSome(o) == Len(o) = 1

Unwrap(o) == o[1]

-----------------------------------------------------------------------------
(* str *)

Char(s, i) == SubSeq(s, i, i)

StartsWith(s, p) == Len(s) >= Len(p) /\ SubSeq(s, 1, Len(p)) = p

WhiteSpace == {" ", "\n", "\t"}

RECURSIVE TrimStart(_)
TrimStart(s) ==
    IF Len(s) > 0 /\ Char(s, 1) \in WhiteSpace
    THEN TrimStart(SubSeq(s, 2, Len(s)))
    ELSE s

RECURSIVE TrimEnd(_)
TrimEnd(s) ==
    IF Len(s) > 0 /\ Char(s, Len(s)) \in WhiteSpace
    THEN TrimEnd(SubSeq(s, 1, Len(s) - 1))
    ELSE s

\* str::trim
Trim(s) == TrimEnd(TrimStart(s))

\* [&str]::join(sep)
RECURSIVE JoinStr(_, _)
JoinStr(parts, sep) ==
    IF Len(parts) = 0 THEN ""
    ELSE IF Len(parts) = 1 THEN parts[1]
    ELSE parts[1] \o sep \o JoinStr(Tail(parts), sep)

\* position of the first occurrence of the character c in s, 0 when absent
RECURSIVE FindChar(_, _, _)
FindChar(s, c, i) ==
    IF i > Len(s) THEN 0
    ELSE IF Char(s, i) = c THEN i
    ELSE FindChar(s, c, i + 1)

\* position of the last occurrence of the character c in s, 0 when absent
RECURSIVE RFindChar(_, _, _)
RFindChar(s, c, i) ==
    IF i < 1 THEN 0
    ELSE IF Char(s, i) = c THEN i
    ELSE RFindChar(s, c, i - 1)

-----------------------------------------------------------------------------
(* url::Url, for the addresses the model uses: http and https URLs with a  *)
(* host and a path, and references without query, fragment or dot          *)
(* segments.  A parsed Url is a record [scheme, host, path].               *)

HostOk(h) == Len(h) > 0 /\ FindChar(h, "[", 1) = 0 /\ FindChar(h, " ", 1) = 0

\* the text after "scheme://" split into host and path
AfterScheme(scheme, rest) ==
    LET slash == FindChar(rest, "/", 1)
        host  == IF slash = 0 THEN rest ELSE SubSeq(rest, 1, slash - 1)
        path  == IF slash = 0 THEN "/" ELSE SubSeq(rest, slash, Len(rest))
    IN  IF HostOk(host)
        THEN Some([scheme |-> scheme, host |-> host, path |-> path])
        ELSE None

\* Url::parse: Some(url), or None for Err (no scheme, or an invalid host)
UrlParse(s) ==
    IF StartsWith(s, "http://") THEN AfterScheme("http", SubSeq(s, 8, Len(s)))
    ELSE IF StartsWith(s, "https://") THEN AfterScheme("https", SubSeq(s, 9, Len(s)))
    ELSE None

\* Url::to_string
UrlToString(u) == u.scheme \o "://" \o u.host \o u.path

\* Url::join: Some(url), or None for Err
UrlJoin(base, href) ==
    IF StartsWith(href, "http://") \/ StartsWith(href, "https://")
    THEN UrlParse(href)
    ELSE IF StartsWith(href, "//")
    THEN UrlParse(base.scheme \o ":" \o href)
    ELSE IF StartsWith(href, "/")
    THEN Some([base EXCEPT !.path = href])
    ELSE IF href = ""
    THEN Some(base)
    ELSE Some([base EXCEPT !.path =
                 SubSeq(base.path, 1, RFindChar(base.path, "/", Len(base.path)))
                 \o href])

-----------------------------------------------------------------------------
(* The document tree (scraper::ElementRef).  A node is a record            *)
(* [kind, name, href, text, children]: kind is "text", "element" or        *)
(* "comment"; href is the Option of the element's href attribute.          *)

TextNode(t) ==
    [kind |-> "text", name |-> "", href |-> None, text |-> t, children |-> << >>]

CommentNode ==
    [kind |-> "comment", name |-> "", href |-> None, text |-> "", children |-> << >>]

Element(tag, href, children) ==
    [kind |-> "element", name |-> tag, href |-> href, text |-> "",
     children |-> children]

BlockTags == {"p", "div", "br", "li", "ul", "ol", "section", "article"}

\* struct Link
Link(u, t) == [url |-> u, display_text |-> t]

\* an entry of spans_vec: (Spans, Option<usize>)
LineRecord(t, link) == [text |-> t, link |-> link]

\* the href of an anchor resolved against the base (lines 35-39)
ResolveHref(href, base) ==
    IF StartsWith(href, "http")
    THEN href
    ELSE LET joined == UrlJoin(base, href)
         IN  IF IsSome(joined) THEN UrlToString(Unwrap(joined)) ELSE href

\* ElementRef::text: the text nodes below a node, in document order
RECURSIVE TextsOf(_)
RECURSIVE TextsOfAll(_)
TextsOf(node) ==
    IF node.kind = "text" THEN <<node.text>> ELSE TextsOfAll(node.children)

TextsOfAll(nodes) ==
    IF Len(nodes) = 0 THEN << >>
    ELSE TextsOf(Head(nodes)) \o TextsOfAll(Tail(nodes))

\* the label of an anchor (line 40)
DisplayText(element) == Trim(JoinStr(TextsOfAll(element.children), " "))

\* ParseAnchor treating an anchor without href as plain text: its label
\* becomes a plain record
ParseAnchor_PlainWithoutHref(element, acc, base) ==
    LET display_text == DisplayText(element)
    IN  IF display_text = "" THEN acc
        ELSE IF IsSome(element.href)
        THEN [links |-> Append(acc.links,
                               Link(ResolveHref(Unwrap(element.href), base), display_text)),
              spans |-> Append(acc.spans,
                               LineRecord(display_text, Some(Len(acc.links))))]
        ELSE [acc EXCEPT !.spans = Append(@, LineRecord(display_text, None))]

\* ParseAnchor taking the index after the push (lines 42 and 43 exchanged)
ParseAnchor_IndexAfterPush(element, acc, base) ==
    IF IsSome(element.href)
    THEN LET u == ResolveHref(Unwrap(element.href), base)
             display_text == DisplayText(element)
         IN  IF display_text # ""
             THEN LET links == Append(acc.links, Link(u, display_text))
                  IN  [links |-> links,
                       spans |-> Append(acc.spans,
                                        LineRecord(display_text, Some(Len(links))))]
             ELSE acc
    ELSE acc

\* the anchor branch of parse_element (lines 33-46); acc is [links, spans]
ParseAnchor(element, acc, base) ==
    IF IsSome(element.href)
    THEN LET u == ResolveHref(Unwrap(element.href), base)
             display_text == DisplayText(element)
         IN  IF display_text # ""
             THEN LET link_idx == Len(acc.links)
                  IN  [links |-> Append(acc.links, Link(u, display_text)),
                       spans |-> Append(acc.spans,
                                        LineRecord(display_text, Some(link_idx)))]
             ELSE acc
    ELSE acc

\* a text child (lines 52-57)
ParseText(node, acc) ==
    LET text_str == Trim(node.text)
    IN  IF text_str # ""
        THEN [acc EXCEPT !.spans = Append(@, LineRecord(text_str, None))]
        ELSE acc

\* BlockBreak with "li" missing from the list of block tags
BlockBreak_NoListItem(tag, acc) ==
    IF tag \in BlockTags \ {"li"}
    THEN [acc EXCEPT !.spans = Append(@, LineRecord("", None))]
    ELSE acc

\* the line break after a block element (lines 61-63)
BlockBreak(tag, acc) ==
    IF tag \in BlockTags
    THEN [acc EXCEPT !.spans = Append(@, LineRecord("", None))]
    ELSE acc

\* parse_element (lines 25-65), returning the two accumulators it mutates
RECURSIVE ParseElement(_, _, _)
RECURSIVE ParseChildren(_, _, _)
ParseElement(element, acc, base) ==
    IF element.name = "a"
    THEN ParseAnchor(element, acc, base)
    ELSE BlockBreak(element.name, ParseChildren(element.children, acc, base))

\* the loop over element.children() (lines 49-58)
ParseChildren(children, acc, base) ==
    IF Len(children) = 0 THEN acc
    ELSE LET child == Head(children)
             next  == IF child.kind = "element"
                      THEN ParseElement(child, acc, base)
                      ELSE IF child.kind = "text"
                      THEN ParseText(child, acc)
                      ELSE acc
         IN  ParseChildren(Tail(children), next, base)

\* parse_html (lines 68-80); body is the Option of the document's body element
ParseHtml(body, base) ==
    LET empty == [links |-> << >>, spans |-> << >>]
    IN  IF IsSome(body) THEN ParseElement(Unwrap(body), empty, base) ELSE empty

-----------------------------------------------------------------------------
(* Integer arithmetic of the source *)

U16Max == 65535

Min(a, b) == IF a <= b THEN a ELSE b

\* usize::saturating_sub, u16::saturating_sub
SatSub(a, b) == IF a >= b THEN a - b ELSE 0

\* u16::saturating_add
SatAddU16(a, b) == Min(a + b, U16Max)

\* `as u16`
AsU16(n) == n % (U16Max + 1)

-----------------------------------------------------------------------------
(* The inputs of the navigation loop *)

\* the URL main passes to display_loop (line 227), shortened
StartUrls == {"http://e.com/dir/index.html"}

\* the heights the terminal can have
Heights == {1, 4, 6}

\* the messages of the errors fetch_url can return
FetchErrors == {"error sending request"}

PageEmpty == Element("body", None, << >>)

\* <body><p>Hello <a href="/x">world</a></p></body>
PageHello ==
    Element("body", None,
        <<Element("p", None,
            <<TextNode("Hello "), Element("a", Some("/x"), <<TextNode("world")>>)>>)>>)

\* a page of eleven lines and three links: a relative link, a link to the
\* page itself, a link whose href cannot be joined, and an anchor without href
PageIndex ==
    Element("body", None,
        <<Element("h1", None, <<TextNode(" Index\n")>>),
          CommentNode,
          Element("ul", None,
            <<Element("li", None,
                <<Element("a", Some("page2"), <<TextNode("next")>>)>>),
              Element("li", None,
                <<Element("a", Some(""),
                    <<Element("b", None, <<TextNode("this")>>), TextNode("page")>>)>>),
              Element("li", None,
                <<Element("a", Some("//["), <<TextNode("bad")>>)>>),
              Element("li", None,
                <<Element("a", None, <<TextNode("dead")>>)>>)>>),
          Element("p", None, <<TextNode("tail")>>)>>)

\* the documents a fetch can return
Pages == {PageEmpty, PageHello, PageIndex}

\* the line of an error page (line 126)
ErrorLine(e) == LineRecord("Error fetching URL: " \o e, None)

-----------------------------------------------------------------------------
(* display_loop (lines 88-222) *)

NavInit ==
    /\ pc = "start"
    /\ url \in StartUrls
    /\ last_url = ""
    /\ current_links = << >>
    /\ current_spans = << >>
    /\ selected_link_idx = None
    /\ scroll_offset = 0
    /\ raw_mode = FALSE
    /\ alt_screen = FALSE
    /\ term_height \in Heights
    /\ frame = None
    /\ last_fetch = None
    /\ html = None
    /\ base_url = None
    /\ n_lines = 0
    /\ event = "none"

pageVars == <<url, last_url, current_links, current_spans, html, base_url, last_fetch>>

navVars == <<selected_link_idx, scroll_offset>>

termVars == <<raw_mode, alt_screen>>

\* enable_raw_mode, EnterAlternateScreen, Terminal::new (lines 89-94): each
\* can fail, and `?` then returns the error
Setup ==
    /\ pc = "start"
    /\ \E failed \in {"enable_raw_mode", "EnterAlternateScreen", "Terminal::new", "none"} :
          /\ raw_mode' = (failed # "enable_raw_mode")
          /\ alt_screen' = (failed \notin {"enable_raw_mode", "EnterAlternateScreen"})
          /\ pc' = IF failed = "none" THEN "fetch" ELSE "Err"
    /\ UNCHANGED <<pageVars, navVars, term_height, frame, n_lines, event>>

\* NoFetch that still runs lines 128-129: the selection and the scroll offset
\* are reset although nothing is fetched
NoFetch_ResetsView ==
    /\ pc = "fetch"
    /\ url = last_url
    /\ pc' = "draw"
    /\ selected_link_idx' = None
    /\ scroll_offset' = 0
    /\ UNCHANGED <<pageVars, termVars, term_height, frame, n_lines, event>>

\* line 112: the URL did not change, nothing is fetched
NoFetch ==
    /\ pc = "fetch"
    /\ url = last_url
    /\ pc' = "draw"
    /\ UNCHANGED <<pageVars, navVars, termVars, term_height, frame, n_lines, event>>

\* LoadPage with line 117 left out: the link table of the old page is kept
LoadPage_StaleLinks(body, base) ==
    LET parsed == ParseHtml(body, base)
    IN  /\ html' = body
        /\ base_url' = Some(base)
        /\ current_links' = current_links
        /\ current_spans' = parsed.spans
        /\ last_url' = url
        /\ selected_link_idx' = None
        /\ scroll_offset' = 0

\* the state after a successful fetch of a parsable URL (lines 115-121)
LoadPage(body, base) ==
    LET parsed == ParseHtml(body, base)
    IN  /\ html' = body
        /\ base_url' = Some(base)
        /\ current_links' = parsed.links
        /\ current_spans' = parsed.spans
        /\ last_url' = url
        /\ selected_link_idx' = None
        /\ scroll_offset' = 0

\* lines 113-122: fetch_url returns Ok(html)
FetchOk ==
    /\ pc = "fetch"
    /\ url # last_url
    /\ \E page \in Pages :
          /\ last_fetch' = Some([url |-> url, ok |-> TRUE, body |-> Some(page), err |-> ""])
          /\ IF IsSome(UrlParse(url))
             THEN /\ LoadPage(Some(page), Unwrap(UrlParse(url)))
                  /\ pc' = "draw"
             ELSE \* line 115: `?` returns the parse error from display_loop
                  /\ pc' = "Err"
                  /\ UNCHANGED <<last_url, current_links, current_spans, html,
                                 base_url, navVars>>
    /\ UNCHANGED <<url, termVars, term_height, frame, n_lines, event>>

\* LoadError with line 127 left out: the failed URL is not remembered
LoadError_ForgetsUrl(e) ==
    /\ current_links' = << >>
    /\ current_spans' = <<ErrorLine(e)>>
    /\ last_url' = last_url
    /\ selected_link_idx' = None
    /\ scroll_offset' = 0

\* LoadError with line 128 left out: the selection is kept
LoadError_KeepSelection(e) ==
    /\ current_links' = << >>
    /\ current_spans' = <<ErrorLine(e)>>
    /\ last_url' = url
    /\ selected_link_idx' = selected_link_idx
    /\ scroll_offset' = 0

\* LoadError with the error line appended to the old lines instead of
\* replacing them
LoadError_KeepSpans(e) ==
    /\ current_links' = << >>
    /\ current_spans' = Append(current_spans, ErrorLine(e))
    /\ last_url' = url
    /\ selected_link_idx' = None
    /\ scroll_offset' = 0

\* LoadError with line 129 left out: the scroll offset is kept
LoadError_KeepScroll(e) ==
    /\ current_links' = << >>
    /\ current_spans' = <<ErrorLine(e)>>
    /\ last_url' = url
    /\ selected_link_idx' = None
    /\ scroll_offset' = scroll_offset

\* the state after a failed fetch (lines 125-129)
LoadError(e) ==
    /\ current_links' = << >>
    /\ current_spans' = <<ErrorLine(e)>>
    /\ last_url' = url
    /\ selected_link_idx' = None
    /\ scroll_offset' = 0

\* lines 123-130: fetch_url returns Err(e)
FetchErr ==
    /\ pc = "fetch"
    /\ url # last_url
    /\ \E e \in FetchErrors :
          /\ last_fetch' = Some([url |-> url, ok |-> FALSE, body |-> None, err |-> e])
          /\ LoadError(e)
    /\ pc' = "draw"
    /\ UNCHANGED <<url, html, base_url, termVars, term_height, frame, n_lines, event>>

\* max_scroll (line 161)
MaxScroll(total, height) == AsU16(SatSub(total, height))

\* ClampScroll with the comparison turned round: nothing is clamped
ClampScroll_Never(offset, max_scroll) == IF offset < max_scroll THEN max_scroll ELSE offset

\* the clamp of scroll_offset (lines 162-164)
ClampScroll(offset, max_scroll) == IF offset > max_scroll THEN max_scroll ELSE offset

\* Block::inner for Borders::ALL (line 167): the top and the bottom border
\* take one row each
InnerHeight(height) == SatSub(SatSub(height, 1), 1)

\* the number of lines Paragraph paints (lines 166-169): those from the scroll
\* offset on that fit into the inner rows of the block
PaintedRows(total, height, offset) == Min(InnerHeight(height), SatSub(total, offset))

\* the closure given to terminal.draw (lines 155-169) for total styled lines
DrawFrame(total) ==
    LET max_scroll == MaxScroll(total, term_height)
        clamped    == ClampScroll(scroll_offset, max_scroll)
    IN  /\ scroll_offset' = clamped
        /\ frame' = Some([title  |-> url,
                          height |-> term_height,
                          total  |-> total,
                          offset |-> clamped,
                          rows   |-> PaintedRows(total, term_height, clamped)])

\* lines 135-170: style the lines and draw the frame
Draw ==
    /\ pc = "draw"
    /\ DrawFrame(Len(current_spans))
    /\ pc' = "read"
    /\ UNCHANGED <<pageVars, selected_link_idx, termVars, term_height, n_lines, event>>

\* line 170: terminal.draw returns an error, which `?` returns
DrawError ==
    /\ pc = "draw"
    /\ pc' = "Err"
    /\ UNCHANGED <<pageVars, navVars, termVars, term_height, frame, n_lines, event>>

\* line 173: read returns an error, which `?` returns
ReadError ==
    /\ pc = "read"
    /\ event' = "Err"
    /\ pc' = "Err"
    /\ UNCHANGED <<pageVars, navVars, termVars, term_height, frame, n_lines>>

\* line 173: an event that is no key event (a resize, a mouse event)
NonKeyEvent ==
    /\ pc = "read"
    /\ term_height' \in Heights
    /\ event' = "Resize"
    /\ pc' = "fetch"
    /\ UNCHANGED <<pageVars, navVars, termVars, frame, n_lines>>

\* line 175
KeyQuit ==
    /\ pc = "read"
    /\ event' = "q"
    /\ pc' = "exit"
    /\ UNCHANGED <<pageVars, navVars, termVars, term_height, frame, n_lines>>

\* CycleLinkForward stopping at the last link instead of wrapping
CycleLinkForward_NoWrap(selected, len) ==
    IF len # 0
    THEN Some(IF selected = None THEN 0
              ELSE IF Unwrap(selected) + 1 = len THEN len - 1 ELSE Unwrap(selected) + 1)
    ELSE selected

\* the selection after Tab (lines 178-183)
CycleLinkForward(selected, len) ==
    IF len # 0
    THEN Some(IF selected = None THEN 0 ELSE (Unwrap(selected) + 1) % len)
    ELSE selected

\* CycleLinkBackward stopping at the first link instead of wrapping
CycleLinkBackward_NoWrap(selected, len) ==
    IF len # 0
    THEN Some(IF selected = None THEN len - 1
              ELSE IF Unwrap(selected) = 0 THEN 0 ELSE Unwrap(selected) - 1)
    ELSE selected

\* the selection after BackTab (lines 186-191)
CycleLinkBackward(selected, len) ==
    IF len # 0
    THEN Some(IF selected = None THEN len - 1
              ELSE IF Unwrap(selected) = 0 THEN len - 1 ELSE Unwrap(selected) - 1)
    ELSE selected

\* lines 177-184
KeyTab ==
    /\ pc = "read"
    /\ selected_link_idx' = CycleLinkForward(selected_link_idx, Len(current_links))
    /\ event' = "Tab"
    /\ pc' = "fetch"
    /\ UNCHANGED <<pageVars, scroll_offset, termVars, term_height, frame, n_lines>>

\* lines 185-192
KeyBackTab ==
    /\ pc = "read"
    /\ selected_link_idx' = CycleLinkBackward(selected_link_idx, Len(current_links))
    /\ event' = "BackTab"
    /\ pc' = "fetch"
    /\ UNCHANGED <<pageVars, scroll_offset, termVars, term_height, frame, n_lines>>

\* ActivateSelection taking the first link whatever index is selected
ActivateSelection_First(selected, links, requested) ==
    IF IsSome(selected) /\ Unwrap(selected) < Len(links)
    THEN links[1].url
    ELSE requested

\* the requested URL after Enter (lines 194-199)
ActivateSelection(selected, links, requested) ==
    IF IsSome(selected) /\ Unwrap(selected) < Len(links)
    THEN links[Unwrap(selected) + 1].url
    ELSE requested

\* lines 193-200
KeyEnter ==
    /\ pc = "read"
    /\ url' = ActivateSelection(selected_link_idx, current_links, url)
    /\ event' = "Enter"
    /\ pc' = "fetch"
    /\ UNCHANGED <<last_url, current_links, current_spans, html, base_url, last_fetch,
                   navVars, termVars, term_height, frame, n_lines>>

\* lines 201-212: Down, PageDown add 1, 10; Up, PageUp subtract 1, 10
ScrollBy(offset, key) ==
    CASE key = "Down"     -> SatAddU16(offset, 1)
      [] key = "Up"       -> SatSub(offset, 1)
      [] key = "PageDown" -> SatAddU16(offset, 10)
      [] key = "PageUp"   -> SatSub(offset, 10)

\* KeyScroll that also clears the selection
KeyScroll_ClearsSelection ==
    /\ pc = "read"
    /\ \E key \in {"Down", "Up", "PageDown", "PageUp"} :
          /\ scroll_offset' = ScrollBy(scroll_offset, key)
          /\ event' = key
    /\ selected_link_idx' = None
    /\ pc' = "fetch"
    /\ UNCHANGED <<pageVars, termVars, term_height, frame, n_lines>>

\* lines 201-212
KeyScroll ==
    /\ pc = "read"
    /\ \E key \in {"Down", "Up", "PageDown", "PageUp"} :
          /\ scroll_offset' = ScrollBy(scroll_offset, key)
          /\ event' = key
    /\ pc' = "fetch"
    /\ UNCHANGED <<pageVars, selected_link_idx, termVars, term_height, frame, n_lines>>

\* line 213: any other key
KeyOther ==
    /\ pc = "read"
    /\ event' = "Other"
    /\ pc' = "fetch"
    /\ UNCHANGED <<pageVars, navVars, termVars, term_height, frame, n_lines>>

\* lines 218-221: disable_raw_mode and LeaveAlternateScreen; each can fail,
\* and `?` then returns the error
Exit ==
    /\ pc = "exit"
    /\ \E failed \in {"disable_raw_mode", "LeaveAlternateScreen", "none"} :
          /\ raw_mode' = (failed = "disable_raw_mode")
          /\ alt_screen' = (failed # "none")
          /\ pc' = IF failed = "none" THEN "Ok" ELSE "Err"
    /\ UNCHANGED <<pageVars, navVars, term_height, frame, n_lines, event>>

Next ==
    \/ Setup
    \/ NoFetch
    \/ FetchOk
    \/ FetchErr
    \/ Draw
    \/ DrawError
    \/ ReadError
    \/ NonKeyEvent
    \/ KeyQuit
    \/ KeyTab
    \/ KeyBackTab
    \/ KeyEnter
    \/ KeyScroll
    \/ KeyOther
    \/ Exit

Spec == NavInit /\ [][Next]_vars

-----------------------------------------------------------------------------
(* Properties of the navigation loop, checked under Spec *)

\* a step of the loop that performs a fetch (lines 112-131)
NavigationStep == pc = "fetch" /\ url # last_url

\* the fetch of this step failed
FetchFailedStep == NavigationStep /\ ~Unwrap(last_fetch').ok

\* the cached page is an error page: no links, one plain line with a message
IsErrorPage(links, spans) ==
    /\ links = << >>
    /\ Len(spans) = 1
    /\ spans[1].link = None
    /\ StartsWith(spans[1].text, "Error fetching URL: ")

C2_FetchFailureGivesErrorPage ==
    [][FetchFailedStep
         => /\ IsErrorPage(current_links', current_spans')
            /\ selected_link_idx' = None
            /\ scroll_offset' = 0
            /\ last_url' = url
            /\ url' = url
            /\ pc' = "draw"]_vars

\* an error page that replaced a page with links
C2_Witness ==
    /\ pc = "draw"
    /\ IsSome(last_fetch) /\ ~Unwrap(last_fetch).ok
    /\ last_url = Unwrap(last_fetch).url
    /\ html = Some(PageIndex)
    /\ IsErrorPage(current_links, current_spans)

\* C3: the selection is none or an index of the current link table.
C3_SelectionInRange ==
    IsSome(selected_link_idx) => Unwrap(selected_link_idx) < Len(current_links)

\* the last link of a table of three is selected
C3_Witness ==
    /\ Len(current_links) = 3
    /\ selected_link_idx = Some(2)
    /\ pc = "fetch"

\* C4: every linked line record of the cached lines carries an index of the
\* cached link table.
C4_LinkedRecordsResolve ==
    \A i \in 1..Len(current_spans) :
        IsSome(current_spans[i].link)
            => Unwrap(current_spans[i].link) < Len(current_links)

\* a page with one link has replaced the page with three links
C4_Witness ==
    /\ pc = "draw"
    /\ last_url = "http://e.com/dir/page2"
    /\ Len(current_links) = 1
    /\ \E i \in 1..Len(current_spans) : current_spans[i].link = Some(0)

\* the page a completed fetch produces (lines 114-130)
PageOfFetch(f) ==
    IF f.ok
    THEN ParseHtml(f.body, Unwrap(UrlParse(f.url)))
    ELSE [links |-> << >>, spans |-> <<ErrorLine(f.err)>>]

\* C5: at every render the title, the lines and the link table are those of
\* the most recently completed fetch, which was for the requested URL.
C5_RenderShowsLastFetch ==
    pc = "read"
        => /\ IsSome(frame) /\ IsSome(last_fetch)
           /\ Unwrap(frame).title = url
           /\ last_url = url
           /\ Unwrap(last_fetch).url = url
           /\ Unwrap(frame).total = Len(current_spans)
           /\ current_links = PageOfFetch(Unwrap(last_fetch)).links
           /\ current_spans = PageOfFetch(Unwrap(last_fetch)).spans

\* the second page, reached through a link, has been drawn
C5_Witness ==
    /\ pc = "read"
    /\ url = "http://e.com/dir/page2"
    /\ Unwrap(last_fetch).ok
    /\ Unwrap(frame).title = "http://e.com/dir/page2"

\* the selections of a link table of length len: none, or an index
Selections(len) == {None} \cup {Some(i) : i \in 0..(len - 1)}

\* the indices of a link table of length len
Indices(len) == {Some(i) : i \in 0..(len - 1)}

\* CycleLinkForward applied k times
RECURSIVE ForwardTimes(_, _, _)
ForwardTimes(selected, len, k) ==
    IF k = 0 THEN selected
    ELSE ForwardTimes(CycleLinkForward(selected, len), len, k - 1)

\* C6 as stated: for a link table of length len >= 1, CycleLinkForward is a
\* bijection on {none} \cup [0, len) of period len and CycleLinkBackward is
\* its inverse.
C6_CyclingBijectionWithNone ==
    LET len == Len(current_links)
    IN  len >= 1 =>
          /\ {CycleLinkForward(s, len) : s \in Selections(len)} = Selections(len)
          /\ \A s \in Selections(len) :
                /\ CycleLinkBackward(CycleLinkForward(s, len), len) = s
                /\ CycleLinkForward(CycleLinkBackward(s, len), len) = s
                /\ ForwardTimes(s, len, len) = s

\* C6 amended: for a link table of length len >= 1, CycleLinkForward is a
\* bijection on the indices [0, len) of period len and CycleLinkBackward is
\* its inverse there; none is mapped into [0, len) by both (to 0 and to
\* len - 1) and is never the result of either.
C6_CyclingBijectionOnIndices ==
    LET len == Len(current_links)
    IN  len >= 1 =>
          /\ {CycleLinkForward(s, len) : s \in Indices(len)} = Indices(len)
          /\ \A s \in Indices(len) :
                /\ CycleLinkBackward(CycleLinkForward(s, len), len) = s
                /\ CycleLinkForward(CycleLinkBackward(s, len), len) = s
                /\ ForwardTimes(s, len, len) = s
                /\ \A k \in 1..(len - 1) : ForwardTimes(s, len, k) # s
          /\ CycleLinkForward(None, len) = Some(0)
          /\ CycleLinkBackward(None, len) = Some(len - 1)
          /\ \A s \in Selections(len) :
                /\ CycleLinkForward(s, len) \in Indices(len)
                /\ CycleLinkBackward(s, len) \in Indices(len)

\* Tab has wrapped from the last link of three to the first
C6_Witness ==
    /\ Len(current_links) = 3
    /\ pc = "fetch"
    /\ selected_link_idx = Some(0)
    /\ CycleLinkBackward(selected_link_idx, 3) = Some(2)

-----------------------------------------------------------------------------
(* The render step and the scroll keys for pages given by the number of    *)
(* their lines, which may exceed the range of the u16 scroll offset.       *)

\* styled_lines.len() (line 161) of the pages
Totals == {0, 3, 7, 12, 65541, 65543, 131080}

RenderInit ==
    /\ pc = "fetch"
    /\ n_lines \in Totals
    /\ event = "none"
    /\ term_height \in Heights
    /\ url \in StartUrls
    /\ last_url = url
    /\ current_links = << >>
    /\ current_spans = << >>
    /\ selected_link_idx = None
    /\ scroll_offset = 0
    /\ raw_mode = TRUE
    /\ alt_screen = TRUE
    /\ frame = None
    /\ last_fetch = None
    /\ html = None
    /\ base_url = None

\* lines 154-170 for a page of n_lines lines
DrawLong ==
    /\ pc = "draw"
    /\ DrawFrame(n_lines)
    /\ pc' = "read"
    /\ UNCHANGED <<pageVars, selected_link_idx, termVars, term_height, n_lines, event>>

RenderNext ==
    \/ NoFetch
    \/ DrawLong
    \/ KeyScroll
    \/ NonKeyEvent

SpecRender == RenderInit /\ [][RenderNext]_vars

\* the largest scroll offset of a page of total lines in a viewport of the
\* given height: max(0, total - height)
ScrollRange(total, height) == IF total > height THEN total - height ELSE 0

\* C7: after a render, the offset the frame was painted at, which is the
\* offset stored, lies in [0, max(0, total_lines - viewport_height)].
C7_OffsetInRange ==
    pc = "read"
        => /\ IsSome(frame)
           /\ Unwrap(frame).offset = scroll_offset
           /\ scroll_offset >= 0
           /\ scroll_offset <= ScrollRange(Unwrap(frame).total, Unwrap(frame).height)

\* a page of more than 65535 lines whose max_scroll was cut by the cast to
\* u16, drawn at that cut max_scroll
C7_Witness ==
    /\ pc = "read"
    /\ n_lines - Unwrap(frame).height > U16Max
    /\ scroll_offset = MaxScroll(n_lines, Unwrap(frame).height)
    /\ scroll_offset > 0
    /\ scroll_offset < ScrollRange(n_lines, Unwrap(frame).height)

\* C8: the window painted in a frame has exactly min(viewport_height,
\* total_lines) lines, viewport_height being the height max_scroll is
\* computed from.
C8_WindowHasMinHeightTotalLines ==
    pc = "read"
        => Unwrap(frame).rows = Min(Unwrap(frame).height, Unwrap(frame).total)

-----------------------------------------------------------------------------
(* The flattener applied to every document of a bounded size *)

\* the largest number of nodes below the body
MaxNodes == 3

Texts == {" ", "Hello ", "world"}

\* the tag and href of the elements of the enumerated documents
Heads == {[tag |-> "a", href |-> None], [tag |-> "a", href |-> Some("/x")],
          [tag |-> "p", href |-> None], [tag |-> "span", href |-> None]}

\* the sequences of sibling nodes with n nodes in all
RECURSIVE Forests(_)
Forests(n) ==
    IF n = 0 THEN {<< >>}
    ELSE {<<TextNode(t)>> \o rest : t \in Texts, rest \in Forests(n - 1)}
         \cup UNION {{<<Element(h.tag, h.href, kids)>> \o rest :
                         h \in Heads, kids \in Forests(k), rest \in Forests(n - 1 - k)} :
                     k \in 0..(n - 1)}

\* tags of elements that are no anchors: the block tags and some others
SweepTags == BlockTags \cup {"span", "h1", "b", "td", "body"}

\* <body><TAG>Hello <a href="/x">world</a></TAG>world</body> for every tag
SweepDocs ==
    {Element("body", None,
        <<Element(tag, None,
            <<TextNode("Hello "), Element("a", Some("/x"), <<TextNode("world")>>)>>),
          TextNode("world")>>) : tag \in SweepTags}

\* <body><ul><li><a H1>T1</a></li><li><a H2>T2</a></li></ul></body> for
\* every two hrefs (absent, "/x", "page2") and every two texts
LinkRows ==
    LET Hrefs == {None, Some("/x"), Some("page2")}
    IN  {Element("body", None,
            <<Element("ul", None,
                <<Element("li", None, <<Element("a", h1, <<TextNode(t1)>>)>>),
                  Element("li", None, <<Element("a", h2, <<TextNode(t2)>>)>>)>>)>>) :
         h1 \in Hrefs, h2 \in Hrefs, t1 \in Texts, t2 \in Texts}

\* href attributes: relative paths, one of them beginning with the letters
\* "http", an absolute path, the empty reference, scheme-relative references
\* (one with an invalid host) and absolute addresses
Hrefs ==
    {"page2", "sub/p.html", "httpdocs/p", "/x", "", "//o.org/y", "//[",
     "http://e.com/a", "https://o.org/"}

\* <body><p>Hello <a href=H>world</a></p></body> for every href
HrefDocs ==
    {Element("body", None,
        <<Element("p", None,
            <<TextNode("Hello "), Element("a", Some(h), <<TextNode("world")>>)>>)>>) :
     h \in Hrefs}

\* the base addresses
BaseUrls == {"http://e.com/", "http://e.com/dir/index.html"}

\* the inputs of parse_html: every document of at most MaxNodes nodes below
\* the body, the documents listed above, and a document without a body
FlattenInit ==
    /\ pc = "parse_html"
    /\ \/ /\ \E n \in 0..MaxNodes : \E kids \in Forests(n) :
                html = Some(Element("body", None, kids))
          /\ url = "http://e.com/"
       \/ /\ \E d \in SweepDocs \cup LinkRows \cup HrefDocs \cup Pages : html = Some(d)
          /\ url \in BaseUrls
       \/ /\ html = None
          /\ url \in BaseUrls
    /\ base_url = UrlParse(url)
    /\ last_url = ""
    /\ current_links = << >>
    /\ current_spans = << >>
    /\ selected_link_idx = None
    /\ scroll_offset = 0
    /\ raw_mode = TRUE
    /\ alt_screen = TRUE
    /\ term_height \in {6}
    /\ frame = None
    /\ last_fetch = None
    /\ n_lines = 0
    /\ event = "none"

\* lines 116-121: parse_html on the fetched document
Flatten ==
    /\ pc = "parse_html"
    /\ LoadPage(html, Unwrap(base_url))
    /\ pc' = "parsed"
    /\ UNCHANGED <<url, last_fetch, termVars, term_height, frame, n_lines, event>>

SpecFlatten == FlattenInit /\ [][Flatten]_vars

-----------------------------------------------------------------------------
(* Properties of the flattener, checked under SpecFlatten *)

\* the anchors below the nodes, in document order, that have a non-empty label
RECURSIVE LabelledAnchors(_)
LabelledAnchors(nodes) ==
    IF Len(nodes) = 0 THEN << >>
    ELSE LET node == Head(nodes)
             here == IF node.kind = "element" /\ node.name = "a"
                        /\ DisplayText(node) # ""
                     THEN <<node>> ELSE << >>
         IN  here \o LabelledAnchors(node.children) \o LabelledAnchors(Tail(nodes))

\* the anchors below the nodes, in document order, that have an href and a
\* non-empty label and lie in no other anchor
RECURSIVE LinkAnchors(_)
LinkAnchors(nodes) ==
    IF Len(nodes) = 0 THEN << >>
    ELSE LET node == Head(nodes)
             here == IF node.kind = "element" /\ node.name = "a"
                     THEN IF IsSome(node.href) /\ DisplayText(node) # ""
                          THEN <<node>> ELSE << >>
                     ELSE LinkAnchors(node.children)
         IN  here \o LinkAnchors(Tail(nodes))

\* the positions of the linked records of the lines
LinkedPositions(spans) == {i \in 1..Len(spans) : IsSome(spans[i].link)}

\* the link table has as many entries as there are linked records, whose
\* indices are distinct and valid, and its entries are the given anchors
TableMatches(links, spans, anchors) ==
    /\ Len(links) = Cardinality(LinkedPositions(spans))
    /\ \A i \in LinkedPositions(spans) : Unwrap(spans[i].link) < Len(links)
    /\ \A i, j \in LinkedPositions(spans) : i # j => spans[i].link # spans[j].link
    /\ Len(links) = Len(anchors)
    /\ \A k \in 1..Len(links) :
          /\ k <= Len(anchors)
          /\ links[k].display_text = DisplayText(anchors[k])

\* the nodes of the document given to parse_html
HtmlNodes == IF IsSome(html) THEN <<Unwrap(html)>> ELSE << >>

\* C9 as stated: the link table has as many entries as there are linked
\* records, the linked records' indices are distinct and valid, and the
\* entries are exactly the anchors of the document with a non-empty label.
C9_TableIsEveryLabelledAnchor ==
    pc = "parsed"
        => TableMatches(current_links, current_spans, LabelledAnchors(HtmlNodes))

\* C9 amended: the link table has as many entries as there are linked
\* records, the linked records' indices are distinct and valid, and the
\* entries are exactly the anchors of the document that have an href
\* attribute and a non-empty label and are not inside another anchor.
C9_TableIsEveryLinkAnchor ==
    pc = "parsed"
        => TableMatches(current_links, current_spans, LinkAnchors(HtmlNodes))

\* the page with three links and a fourth, labelled anchor without href
C9_Witness ==
    /\ pc = "parsed"
    /\ html = Some(PageIndex)
    /\ Len(current_links) = 3
    /\ Len(LabelledAnchors(HtmlNodes)) = 4

\* the records C10 names, in document order: a plain record per non-empty
\* trimmed text child, a record per anchor with href and non-empty label, and
\* an empty plain record after the children of a block element
RECURSIVE ClaimedRecords(_)
ClaimedRecords(nodes) ==
    IF Len(nodes) = 0 THEN << >>
    ELSE LET node == Head(nodes)
             here ==
                 IF node.kind = "text"
                 THEN IF Trim(node.text) # ""
                      THEN <<[linked |-> FALSE, text |-> Trim(node.text)]>>
                      ELSE << >>
                 ELSE IF node.kind # "element"
                 THEN << >>
                 ELSE IF node.name = "a"
                 THEN IF IsSome(node.href) /\ DisplayText(node) # ""
                      THEN <<[linked |-> TRUE, text |-> DisplayText(node)]>>
                      ELSE << >>
                 ELSE ClaimedRecords(node.children)
                      \o IF node.name \in {"p", "div", "br", "li", "ul", "ol",
                                           "section", "article"}
                         THEN <<[linked |-> FALSE, text |-> ""]>>
                         ELSE << >>
         IN  here \o ClaimedRecords(Tail(nodes))

\* the claimed records with each linked record's index: the number of links
\* discovered before it
ClaimedLines(nodes) ==
    LET records == ClaimedRecords(nodes)
    IN  [i \in 1..Len(records) |->
            LineRecord(records[i].text,
                       IF records[i].linked
                       THEN Some(Cardinality({j \in 1..(i - 1) : records[j].linked}))
                       ELSE None)]

\* C10: flattening a non-anchor element emits its children's records in
\* document order, each linked record with the link table length at its
\* discovery as index, followed by one empty plain record exactly for the tags
\* p, div, br, li, ul, ol, section, article; <p>Hello <a href="/x">world</a></p>
\* yields "Hello", link 0 "world", "".
C10_RecordsInDocumentOrder ==
    pc = "parsed"
        => /\ current_spans = ClaimedLines(HtmlNodes)
           /\ html = Some(PageHello)
                 => current_spans = <<LineRecord("Hello", None),
                                      LineRecord("world", Some(0)),
                                      LineRecord("", None)>>

\* the example document has been flattened
C10_Witness ==
    /\ pc = "parsed"
    /\ html = Some(PageHello)
    /\ Len(current_spans) = 3
    /\ current_spans[3] = LineRecord("", None)

\* the nodes without the anchors that have no href or an empty label; what
\* lies in an anchor that is kept is left as it is
RECURSIVE WithoutDroppedAnchors(_)
WithoutDroppedAnchors(nodes) ==
    IF Len(nodes) = 0 THEN << >>
    ELSE LET node == Head(nodes)
             here ==
                 IF node.kind # "element" THEN <<node>>
                 ELSE IF node.name = "a"
                 THEN IF IsSome(node.href) /\ DisplayText(node) # ""
                      THEN <<node>> ELSE << >>
                 ELSE <<[node EXCEPT !.children = WithoutDroppedAnchors(@)]>>
         IN  here \o WithoutDroppedAnchors(Tail(nodes))

\* C11: an anchor without href, or with a label that is empty after trimming,
\* adds no link and no line record, neither for itself nor for what lies in
\* it, and the walk goes on with its following siblings: the link table and the
\* lines are those of the document with these anchors taken out.
C11_DroppedAnchorsLeaveNoTrace ==
    (pc = "parsed" /\ IsSome(html))
        => LET pruned == ParseHtml(Some(Head(WithoutDroppedAnchors(HtmlNodes))),
                                   Unwrap(base_url))
           IN  /\ current_links = pruned.links
               /\ current_spans = pruned.spans

\* an anchor without href and with a label, followed by a text: only the
\* text gives a record
C11_Witness ==
    /\ pc = "parsed"
    /\ html = Some(Element("body", None,
                     <<Element("a", None, <<TextNode("world")>>), TextNode("Hello ")>>))
    /\ current_links = << >>
    /\ current_spans = <<LineRecord("Hello", None)>>

-----------------------------------------------------------------------------
(* Properties of the key handling, checked under Spec *)

\* the cached page and the view on it
viewVars == <<current_links, current_spans, selected_link_idx, scroll_offset>>

\* the selected link leads to the URL of the cached page
SelectedIsCurrentUrl ==
    /\ pc = "read"
    /\ IsSome(selected_link_idx)
    /\ Unwrap(selected_link_idx) < Len(current_links)
    /\ current_links[Unwrap(selected_link_idx) + 1].url = last_url

\* C12: activating a link whose target is the URL of the cached page requests
\* that same URL; a loop iteration whose requested URL is the cached URL
\* fetches nothing; and from the Enter to the next frame the link table, the
\* lines, the selection and the scroll offset stay as they are.
C12_SameUrlIsNoOp ==
    [][/\ (SelectedIsCurrentUrl /\ event' = "Enter")
            => (url' = last_url /\ UNCHANGED <<last_url, last_fetch, viewVars>>)
       /\ (pc = "fetch" /\ url = last_url)
            => (pc' = "draw" /\ UNCHANGED <<url, last_url, last_fetch, viewVars>>)
       /\ (pc = "draw" /\ event = "Enter")
            => UNCHANGED <<url, last_url, last_fetch, viewVars>>]_vars

\* the frame after Enter on the link of the index page that leads to the
\* index page itself, with the page scrolled
C12_Witness ==
    /\ pc = "read"
    /\ event = "Enter"
    /\ html = Some(PageIndex)
    /\ selected_link_idx = Some(1)
    /\ current_links[2].url = url
    /\ last_url = url
    /\ scroll_offset = 3
    /\ Unwrap(frame).offset = 3

\* what a navigation step owes: one fetch, for the requested URL, whose page
\* replaces the cached one with nothing selected and nothing scrolled
PageReplaced ==
    /\ IsSome(last_fetch')
    /\ Unwrap(last_fetch').url = url
    /\ url' = url
    /\ last_url' = url
    /\ current_links' = PageOfFetch(Unwrap(last_fetch')).links
    /\ current_spans' = PageOfFetch(Unwrap(last_fetch')).spans
    /\ selected_link_idx' = None
    /\ scroll_offset' = 0
    /\ pc' = "draw"

C13_NavigationReplacesPageWhenBaseParses ==
    [][(NavigationStep /\ IsSome(UrlParse(url))) => PageReplaced]_vars

-----------------------------------------------------------------------------
(* Properties of the href resolution, checked under SpecFlatten *)

\* the target C14 names for an href: an absolute address unchanged, any other
\* href joined against the base, and the raw href when the join fails
ClaimedTarget(href, base) ==
    IF IsSome(UrlParse(href))
    THEN href
    ELSE LET joined == UrlJoin(base, href)
         IN  IF IsSome(joined) THEN UrlToString(Unwrap(joined)) ELSE href

\* the targets of the link table are the claimed targets of the anchors'
\* hrefs; with_http_prefix tells whether the hrefs that begin with the letters
\* "http" are looked at too
TargetsAsClaimed(with_http_prefix) ==
    LET anchors == LinkAnchors(HtmlNodes)
    IN  /\ Len(current_links) = Len(anchors)
        /\ \A k \in 1..Len(anchors) :
              (with_http_prefix \/ ~StartsWith(Unwrap(anchors[k].href), "http"))
                  => current_links[k].url
                         = ClaimedTarget(Unwrap(anchors[k].href), Unwrap(base_url))

\* C14: the target of every link is its href unchanged when the href is an
\* absolute address, the href joined against the base address when it is a
\* relative one, whatever characters it begins with, and the raw href when
\* it cannot be joined.
C14_RelativeHrefsAreJoined ==
    pc = "parsed" => TargetsAsClaimed(TRUE)

\* C14 for the hrefs that do not begin with the letters "http"
C14_HrefsWithoutHttpPrefixAreJoined ==
    pc = "parsed" => TargetsAsClaimed(FALSE)

\* the scenario of C14: href "page2" on the page http://e.com/dir/index.html
C14_ScenarioReached ==
    /\ pc = "parsed"
    /\ url = "http://e.com/dir/index.html"
    /\ \E k \in 1..Len(current_links) :
          /\ LinkAnchors(HtmlNodes)[k].href = Some("page2")
          /\ current_links[k].url = "http://e.com/dir/page2"

-----------------------------------------------------------------------------
(* Properties of the link cycling, checked under Spec *)

\* C15: with a link table of length len >= 1, Tab selects 0 from none and
\* (i + 1) mod len from Some(i); BackTab selects i - 1 from Some(i) with
\* i > 0 and len - 1 from Some(0) and from none; with an empty link table
\* the selection is none and both keys leave it so.
C15_CyclingFormulas ==
    [][LET len == Len(current_links)
           sel == selected_link_idx
       IN  /\ (pc = "read" /\ event' = "Tab") =>
                 IF len = 0 THEN sel = None /\ selected_link_idx' = None
                 ELSE IF sel = None THEN selected_link_idx' = Some(0)
                 ELSE selected_link_idx' = Some((sel[1] + 1) % len)
           /\ (pc = "read" /\ event' = "BackTab") =>
                 IF len = 0 THEN sel = None /\ selected_link_idx' = None
                 ELSE IF sel = None \/ sel = Some(0) THEN selected_link_idx' = Some(len - 1)
                 ELSE selected_link_idx' = Some(sel[1] - 1)]_vars

\* BackTab has wrapped to the last of three links
C15_Witness ==
    /\ pc = "fetch"
    /\ event = "BackTab"
    /\ Len(current_links) = 3
    /\ selected_link_idx = Some(2)

-----------------------------------------------------------------------------
(* Properties of the activation, checked under Spec *)

\* the target of the selected entry of the link table
SelectedTarget == current_links[Unwrap(selected_link_idx) + 1].url

\* C16: Enter with Some(i) selected requests the target of entry i of the
\* link table and changes nothing else, and if the loop then fetches, that
\* fetch is for this target; Enter with nothing selected changes nothing,
\* and the loop then fetches nothing.
C16_EnterRequestsSelectedTarget ==
    [][/\ (pc = "read" /\ event' = "Enter" /\ IsSome(selected_link_idx))
            => /\ url' = SelectedTarget
               /\ pc' = "fetch"
               /\ UNCHANGED <<last_url, last_fetch, viewVars>>
       /\ (pc = "fetch" /\ event = "Enter" /\ IsSome(selected_link_idx)
              /\ last_fetch' # last_fetch)
            => /\ url = SelectedTarget
               /\ Unwrap(last_fetch').url = SelectedTarget
       /\ (pc = "read" /\ event' = "Enter" /\ selected_link_idx = None)
            => /\ pc' = "fetch"
               /\ UNCHANGED <<url, last_url, last_fetch, viewVars>>
       /\ (pc = "fetch" /\ event = "Enter" /\ selected_link_idx = None)
            => /\ pc' = "draw"
               /\ UNCHANGED <<url, last_url, last_fetch, viewVars>>]_vars

\* the frame to be drawn after Enter on the third link of the index page,
\* whose target is the raw href: the fetch was for that target and failed
C16_Witness ==
    /\ pc = "draw"
    /\ event = "Enter"
    /\ html = Some(PageIndex)
    /\ url = "//["
    /\ IsSome(last_fetch)
    /\ Unwrap(last_fetch).url = "//["
    /\ ~Unwrap(last_fetch).ok
    /\ last_url = "//["

-----------------------------------------------------------------------------
(* Frame properties of the event handling, checked under Spec *)

CycleKeys == {"Tab", "BackTab"}

ScrollKeys == {"Down", "Up", "PageDown", "PageUp"}

\* what event::read returns that is neither Enter nor the quit key
PassiveEvents == CycleKeys \cup ScrollKeys \cup {"Other", "Resize"}

\* C17: a link cycling key, a scroll key, an unrecognised key or a non-key
\* event leaves the requested URL, the cached URL, the link table and the
\* lines unchanged, and the loop iteration that follows fetches nothing and
\* leaves them unchanged too; a cycling key leaves the scroll offset
\* unchanged and a scroll key leaves the selection unchanged, up to and
\* after the next frame.
C17_PassiveEventsKeepPage ==
    [][/\ (pc = "read" /\ event' \in PassiveEvents)
            => /\ pc' = "fetch"
               /\ UNCHANGED <<url, last_url, current_links, current_spans, last_fetch>>
       /\ (pc = "fetch" /\ event \in PassiveEvents)
            => /\ pc' = "draw"
               /\ UNCHANGED <<url, last_url, current_links, current_spans, last_fetch>>
               /\ UNCHANGED <<selected_link_idx, scroll_offset>>
       /\ (pc = "draw" /\ event \in PassiveEvents)
            => UNCHANGED <<url, last_url, current_links, current_spans, last_fetch>>
       /\ (pc = "read" /\ event' \in CycleKeys) => scroll_offset' = scroll_offset
       /\ (pc = "draw" /\ event \in CycleKeys) => scroll_offset' = scroll_offset
       /\ (pc = "read" /\ event' \in ScrollKeys) => selected_link_idx' = selected_link_idx
       /\ (pc = "draw" /\ event \in ScrollKeys) => selected_link_idx' = selected_link_idx]_vars

\* the frame after PageDown on the index page with its second link selected
C17_Witness ==
    /\ pc = "read"
    /\ event = "PageDown"
    /\ html = Some(PageIndex)
    /\ Len(current_links) = 3
    /\ selected_link_idx = Some(1)
    /\ scroll_offset = 5
    /\ Unwrap(last_fetch).url = url

-----------------------------------------------------------------------------
(* Properties of the view, checked under SpecRender *)

\* line k of the page (0-based) is among the lines the frame painted
Painted(f, k) == f.offset <= k /\ k < f.offset + f.rows

\* C18: every line of the page can be scrolled into the painted region.  The
\* scroll keys reach the offsets 0 .. max_scroll and no others, and the
\* painted region moves down with the offset, so this is the case exactly
\* if the frame drawn at offset max_scroll paints the last line of the page.
C18_LastLineComesIntoView ==
    (/\ pc = "read"
     /\ Unwrap(frame).total >= 1
     /\ Unwrap(frame).offset = MaxScroll(Unwrap(frame).total, Unwrap(frame).height))
        => Painted(Unwrap(frame), Unwrap(frame).total - 1)

\* no frame paints the last line of a page that has more lines than the
\* block has inner rows
C18_LastLineNeverPainted ==
    (pc = "read" /\ Unwrap(frame).total > InnerHeight(Unwrap(frame).height))
        => ~Painted(Unwrap(frame), Unwrap(frame).total - 1)

-----------------------------------------------------------------------------
(* Properties of the terminal state, checked under Spec *)

\* display_loop has returned
Returned == pc \in {"Ok", "Err"}

\* raw mode and the alternate screen were both entered: the loop has run
\* (its first iteration fetches), or both are still on
BothEntered == IsSome(last_fetch) \/ (raw_mode /\ alt_screen)

\* C19: whenever display_loop has returned after raw mode and the alternate
\* screen were entered, raw mode is off and the alternate screen is left.
C19_ReturnRestoresTerminal ==
    (Returned /\ BothEntered) => (~raw_mode /\ ~alt_screen)

\* the return with Ok is the only one that restores the terminal: after every
\* return with an error, raw mode or the alternate screen is still on
C19_OnlyOkRestoresTerminal ==
    /\ pc = "Ok" => (~raw_mode /\ ~alt_screen)
    /\ (pc = "Err" /\ BothEntered) => (raw_mode \/ alt_screen)

-----------------------------------------------------------------------------
(* Properties of a page without links, checked under Spec *)

\* the loop runs on a fetched page whose link table is empty (an error page,
\* or a document without links)
DeadEnd ==
    /\ pc \in {"fetch", "draw", "read"}
    /\ IsSome(last_fetch)
    /\ current_links = << >>

\* the keys event::read can return
Keys == CycleKeys \cup ScrollKeys \cup {"Enter", "Other", "q"}

\* C20: while the loop runs on a page with an empty link table, no step
\* changes the requested URL, the cached URL, the links or the lines, none
\* fetches, and nothing gets selected; every key but the quit key leaves the
\* loop on that page, so that only the scroll offset can change, and the
\* quit key leaves the loop.
C20_NoWayOutOfLinklessPage ==
    [][DeadEnd =>
         /\ UNCHANGED <<url, last_url, current_links, current_spans, last_fetch>>
         /\ url = last_url
         /\ selected_link_idx = None /\ selected_link_idx' = None
         /\ (pc = "read" /\ event' \in Keys \ {"q"}) => (pc' = "fetch" /\ DeadEnd')
         /\ (pc = "read" /\ event' = "q") => pc' = "exit"
         /\ pc = "fetch" => (pc' = "draw" /\ DeadEnd')
         /\ pc' = "exit" => event' = "q"]_vars

\* the error page is displayed again after Enter was pressed on it
C20_Witness ==
    /\ pc = "read"
    /\ event = "Enter"
    /\ IsErrorPage(current_links, current_spans)
    /\ ~Unwrap(last_fetch).ok
    /\ Unwrap(last_fetch).url = url
    /\ Unwrap(frame).title = url

====
